---- MODULE Spec2Model ----
(***************************************************************************)
(* Model of the kanon backend: the Gemini analysis service                 *)
(* (backend/app/services/gemini_service.py) and the PDF routes             *)
(* (backend/app/api/routes/pdf.py).                                        *)
(*                                                                         *)
(* Python values are records tagged by "kind"; a text is a sequence of     *)
(* tokens; a call that may raise yields Ok(value) or Raise(exc, msg).      *)
(***************************************************************************)
EXTENDS Integers, Sequences, FiniteSets, TLC

VARIABLES
    enabled,      \* GeminiService.enabled
    model,        \* GeminiService.model: "none" (None) or "client"
    pc,           \* position of the analyze_comprehensive call in progress
    caller,       \* who awaits the call: "none", "direct" or "route"
    text,         \* the call's text argument
    max_retries,  \* the call's max_retries argument
    prompt,       \* the prompt built for the call, NoPrompt before it is built
    images,       \* the call's images argument
    attempt,      \* the loop variable of line 79 (0-based)
    calls,        \* generate_content calls made by this call
    sent,         \* the content_parts of the last of them
    delays,       \* the time.sleep arguments of this call, in order
    lastAttempt,  \* how the last finished attempt of this call ended
    outcome,      \* "none", "returned" or "raised"
    result,       \* the value returned (None is JNull)
    error,        \* the GeminiServiceError raised, NoError if none
    parseIn,      \* the argument of the last _parse_response call
    parseOut,     \* what that call returned or raised
    canary,       \* number of canary generate_content calls by check_connection
    lastCheck,    \* what the last check_connection returned
    cache,        \* content of ./mock_data.json, NoFile when absent
    archive,      \* timestamped files the call in progress wrote to ./gemini_outputs
    writable,     \* which of ./gemini_outputs and ./mock_data.json can be written:
                  \* "all", "archive_only" or "none"
    disk,         \* the files in the upload directory, each a SavedName
    issued,       \* ids returned by a successful analyze_pdf
    nextId,       \* the next fresh uuid
    reqFile,      \* the id of the analyze_pdf request in progress, 0 if none
    response      \* the last HTTP response

vars == <<enabled, model, pc, caller, text, max_retries, prompt, images, attempt, calls, sent,
          delays, lastAttempt, outcome, result, error, parseIn, parseOut, canary,
          lastCheck, cache, archive, writable, disk, issued, nextId, reqFile,
          response>>

serviceVars == <<pc, caller, text, max_retries, prompt, images, attempt, calls, sent, delays,
                 lastAttempt, outcome, result, error, parseIn, parseOut>>
checkVars == <<canary, lastCheck>>
storeVars == <<cache, archive>>
uploadVars == <<disk, issued, nextId, reqFile, response>>

(***************************************************************************)
(* Python values                                                           *)
(***************************************************************************)
JNull == [kind |-> "null"]
JNum(n) == [kind |-> "number", n |-> n]
JStr(w) == [kind |-> "string", words |-> w]
JArr(items) == [kind |-> "array", items |-> items]
JObj(fields) == [kind |-> "object", fields |-> fields]

S(w) == JStr(<<w>>)
EmptyObj == JObj([k \in {} |-> JNull])

Ok(v) == [raised |-> FALSE, value |-> v]
Raise(exc, msg) == [raised |-> TRUE, exc |-> exc, msg |-> msg]

\* bool(v)
Truthy(v) ==
    CASE v.kind = "null" -> FALSE
      [] v.kind = "number" -> v.n # 0
      [] v.kind = "string" -> v.words # <<>>
      [] v.kind = "array" -> v.items # <<>>
      [] v.kind = "object" -> DOMAIN v.fields # {}

\* key in container
PyContains(container, key) ==
    CASE container.kind = "object" -> Ok(key \in DOMAIN container.fields)
      [] container.kind = "array" ->
            Ok(\E i \in 1..Len(container.items) : container.items[i] = S(key))
      [] container.kind = "string" ->
            Ok(\E i \in 1..Len(container.words) : container.words[i] = key)
      [] OTHER -> Raise("TypeError", "argument is not iterable")

\* container[key] = value
PySetItem(container, key, value) ==
    CASE container.kind = "object" ->
            Ok(JObj([k \in DOMAIN container.fields \cup {key} |->
                        IF k = key THEN value ELSE container.fields[k]]))
      [] container.kind = "array" ->
            Raise("TypeError", "list indices must be integers")
      [] OTHER -> Raise("TypeError", "object does not support item assignment")

\* obj.get(key, default)
PyGet(obj, key, default) ==
    IF obj.kind = "object"
    THEN Ok(IF key \in DOMAIN obj.fields THEN obj.fields[key] ELSE default)
    ELSE Raise("AttributeError", "object has no attribute get")

(***************************************************************************)
(* Texts: sequences of tokens                                              *)
(***************************************************************************)
Fence == [t |-> "fence"]           \* ```
Tag(s) == [t |-> "tag", s |-> s]   \* a word, such as the language tag of a fence
Ws == [t |-> "ws"]                 \* white space
Doc(v) == [t |-> "doc", v |-> v]   \* the JSON text of the value v
Junk == [t |-> "junk"]             \* a truncated JSON text: {"summary": "s"

RECURSIVE LStrip(_)
LStrip(s) == IF s # <<>> /\ Head(s) = Ws THEN LStrip(Tail(s)) ELSE s

RECURSIVE RStrip(_)
RStrip(s) ==
    IF s # <<>> /\ s[Len(s)] = Ws THEN RStrip(SubSeq(s, 1, Len(s) - 1)) ELSE s

\* str.strip()
Strip(s) == RStrip(LStrip(s))

StartsWith(s, p) == Len(s) >= Len(p) /\ SubSeq(s, 1, Len(p)) = p
EndsWith(s, p) == Len(s) >= Len(p) /\ SubSeq(s, Len(s) - Len(p) + 1, Len(s)) = p
Drop(s, n) == SubSeq(s, n + 1, Len(s))
DropLast(s, n) == SubSeq(s, 1, Len(s) - n)

\* json.loads
JsonLoads(s) ==
    IF Len(s) = 1 /\ s[1].t = "doc"
    THEN Ok(s[1].v)
    ELSE Raise("JSONDecodeError", "Expecting value")

(***************************************************************************)
(* GeminiService: canonical results                                        *)
(***************************************************************************)
RequiredKeys ==
    <<"summary", "classification", "dimension", "annotation", "title_block",
      "others", "key_insights">>

Classification(document_type, industry, confidence) ==
    JObj([document_type |-> S(document_type), industry |-> S(industry),
          confidence |-> S(confidence)])

AnalysisDict(summary, classification, key_insights) ==
    JObj([summary |-> summary, classification |-> classification,
          dimension |-> JArr(<<>>), annotation |-> JArr(<<>>),
          title_block |-> JArr(<<>>), others |-> JArr(<<>>),
          key_insights |-> JArr(key_insights)])

_get_default_value(key) ==
    CASE key = "summary" -> S("No summary available")
      [] key = "classification" -> Classification("Unknown", "Unknown", "low")
      [] key \in {"dimension", "annotation", "title_block", "others",
                  "key_insights"} -> JArr(<<>>)
      [] OTHER -> JNull

DegradedResult ==
    AnalysisDict(
        S("Analysis completed but response parsing failed. The document was processed successfully."),
        Classification("Unknown", "Unknown", "low"),
        <<S("Raw analysis available but structured parsing failed")>>)

_get_empty_analysis ==
    AnalysisDict(
        S("No text content found in the document. The document may be image-based or empty."),
        Classification("Empty or image-only document", "Unknown", "low"),
        <<S("Document contains no extractable text")>>)

(***************************************************************************)
(* GeminiService._parse_response                                           *)
(***************************************************************************)
StripFences(response_text) ==
    LET t0 == Strip(response_text)
        t1 == IF StartsWith(t0, <<Fence, Tag("json")>>) THEN Drop(t0, 2) ELSE t0
        t2 == IF StartsWith(t1, <<Fence>>) THEN Drop(t1, 1) ELSE t1
        t3 == IF EndsWith(t2, <<Fence>>) THEN DropLast(t2, 1) ELSE t2
    IN  Strip(t3)

\* the loop of lines 278-281, from the i-th required key on
RECURSIVE ValidateStructure(_, _)
ValidateStructure(res, i) ==
    IF i > Len(RequiredKeys) THEN Ok(res)
    ELSE LET key == RequiredKeys[i]
             has == PyContains(res, key)
         IN  IF has.raised THEN has
             ELSE IF has.value THEN ValidateStructure(res, i + 1)
             ELSE LET set == PySetItem(res, key, _get_default_value(key))
                  IN  IF set.raised THEN set
                      ELSE ValidateStructure(set.value, i + 1)

\* the parser without its except clause
ParseResponseUncaught(response_text) ==
    LET loaded == JsonLoads(StripFences(response_text))
    IN  IF loaded.raised THEN loaded ELSE ValidateStructure(loaded.value, 1)

_parse_response(response_text) ==
    LET loaded == JsonLoads(StripFences(response_text))
    IN  IF loaded.raised
        THEN Ok(DegradedResult)        \* except json.JSONDecodeError
        ELSE ValidateStructure(loaded.value, 1)

(***************************************************************************)
(* GeminiService._log_coordinate_details                                   *)
(***************************************************************************)
IsDict(v) == v.kind = "object"

\* the body of one "for i, item in enumerate(...)" iteration: item.get(...),
\* coord.get('x', {}).get(...), coord.get('y', {}).get(...)
ItemLogs(item) ==
    /\ IsDict(item)
    /\ LET coord == PyGet(item, "coordinate", EmptyObj).value
       IN  /\ IsDict(coord)
           /\ IsDict(PyGet(coord, "x", EmptyObj).value)
           /\ IsDict(PyGet(coord, "y", EmptyObj).value)

\* one of the three blocks: analysis_result.get(key, []), then the loop
BlockLogs(analysis_result, key) ==
    LET lst == PyGet(analysis_result, key, JArr(<<>>)).value
    IN  \/ ~Truthy(lst)
        \/ /\ lst.kind = "array"
           /\ \A i \in 1..Len(lst.items) : ItemLogs(lst.items[i])

_log_coordinate_details(analysis_result) ==
    IF /\ IsDict(analysis_result)
       /\ \A key \in {"annotation", "title_block", "dimension"} :
              BlockLogs(analysis_result, key)
    THEN Ok(JNull)
    ELSE Raise("AttributeError", "object has no attribute get")

(***************************************************************************)
(* GeminiService: archive store and mock data                              *)
(***************************************************************************)
NoFile == <<[t |-> "nofile"]>>

\* json.dump(analysis_result, f)
JsonDump(v) == <<Doc(v)>>

_load_mock_data_from_file(file) ==
    IF file = NoFile THEN JNull
    ELSE LET loaded == JsonLoads(file)
         IN  IF loaded.raised THEN JNull ELSE loaded.value

\* the f-string of line 462: a text that embeds page_count and title
FallbackSummary(page_count, title) ==
    [kind |-> "string", words |-> <<"This is a PDF document. Gemini API analysis is not configured.">>,
     page_count |-> page_count, title |-> title]

FallbackMock(metadata) ==
    LET page_count == PyGet(metadata, "page_count", JNum(0)).value
        title == PyGet(metadata, "title", S("PDF Document")).value
    IN  JObj([summary |-> FallbackSummary(page_count, title),
              classification |->
                  Classification("PDF Document (No Mock Data)", "General", "low"),
              dimension |-> JArr(<<>>), annotation |-> JArr(<<>>),
              title_block |-> JArr(<<>>), others |-> JArr(<<>>),
              key_insights |->
                  JArr(<<S("Gemini API key is not configured"),
                         S("mock_data.json file not found"),
                         S("Please upload a PDF with Gemini API enabled to generate mock_data.json"),
                         S("Or manually create backend/mock_data.json with analysis data")>>)])

_get_mock_analysis(file, metadata) ==
    LET loaded == _load_mock_data_from_file(file)
        mock_result == IF ~Truthy(loaded) THEN FallbackMock(metadata) ELSE loaded
        logged == _log_coordinate_details(mock_result)
    IN  IF logged.raised THEN logged ELSE Ok(mock_result)

(***************************************************************************)
(* Inputs                                                                  *)
(***************************************************************************)
MaxRetriesArg == 4     \* largest max_retries a caller passes
MinRetriesArg == 1     \* callers pass max_retries from -MinRetriesArg up
DefaultMaxRetries == 3
PromptMaxChars == 50000

Word == Tag("w")
Texts == {<<>>, <<Ws>>, <<Ws, Word, Ws>>}

Metadatas == {JObj([page_count |-> JNum(2), title |-> S("Plan")]), EmptyObj}

NoImages == [given |-> FALSE]
ImageList(list) == [given |-> TRUE, list |-> list]
Png(page, decodable) == [page |-> page, decodable |-> decodable]
ImageArgs ==
    {NoImages, ImageList(<<Png(1, FALSE)>>),
     ImageList(<<Png(1, TRUE), Png(2, FALSE), Png(3, TRUE)>>)}

Coordinate ==
    JObj([x |-> JObj([left_x |-> S("0.1"), right_x |-> S("0.2")]),
          y |-> JObj([lower_y |-> S("0.4"), upper_y |-> S("0.3")])])
Element(value) == JObj([value |-> S(value), coordinate |-> Coordinate])

\* a complete reply of the model, as the prompt asks for it
FullFields ==
    [summary |-> S("s"), classification |-> Classification("t", "i", "high"),
     dimension |-> JArr(<<Element("10")>>), annotation |-> JArr(<<>>),
     title_block |-> JArr(<<Element("A3")>>), others |-> JArr(<<>>),
     key_insights |-> JArr(<<S("x")>>)]
KeySet == {RequiredKeys[i] : i \in 1..Len(RequiredKeys)}
ObjWith(present) == JObj([k \in present |-> FullFields[k]])
FullObj == ObjWith(KeySet)
Deviant(key, v) == JObj([FullFields EXCEPT ![key] = v])
WithExtra(present) ==
    JObj([k \in present \cup {"extra"} |->
             IF k = "extra" THEN S("kept") ELSE FullFields[k]])

\* values a key may hold that are not of its type, or not loggable
DeviantValues ==
    {JNull, JNum(5), S("text"), JArr(<<S("x")>>),
     JArr(<<JObj([value |-> S("v"), coordinate |-> JNull])>>)}

KeyNames == [i \in 1..Len(RequiredKeys) |-> S(RequiredKeys[i])]
NonObjects ==
    {JNull, JNum(1), S("summary"), JStr(RequiredKeys), JArr(<<>>),
     JArr(<<S("x")>>), JArr(KeyNames)}

\* the JSON documents a reply may hold
DecodedValues ==
    {ObjWith(p) : p \in SUBSET KeySet}
        \cup {WithExtra(p) : p \in {{}, {"summary"}, KeySet}}
        \cup {Deviant(k, v) : k \in KeySet, v \in DeviantValues}
        \cup NonObjects

Bodies == {<<Doc(v)>> : v \in DecodedValues} \cup {<<Junk>>, <<>>, <<Doc(FullObj), Doc(FullObj)>>}
Leads == {<<>>, <<Ws>>, <<Fence, Ws>>, <<Fence, Tag("json"), Ws>>, <<Fence, Tag("python"), Ws>>}
Trails == {<<>>, <<Ws, Fence>>, <<Ws, Fence, Ws>>}

\* every reply text of the model
RawTexts == {l \o b \o t : l \in Leads, b \in Bodies, t \in Trails}

\* the reply texts the service is driven with
ServiceValues ==
    {FullObj, ObjWith({"summary", "dimension"}), Deviant("summary", JNull),
     Deviant("annotation", JArr(<<S("x")>>)), JNull, JArr(KeyNames)}
ReplyTexts ==
    {<<Doc(v)>> : v \in ServiceValues}
        \cup {<<Fence, Tag("json"), Ws, Doc(FullObj), Ws, Fence>>,
              <<Fence, Tag("python"), Ws, Doc(FullObj), Ws, Fence>>,
              <<Junk>>, <<Ws>>}

\* what model.generate_content does: raise, or return a response
ModelException(msg) == [kind |-> "exception", msg |-> msg]
NoResponse == [kind |-> "no_response"]                \* a falsy response
TextlessResponse == [kind |-> "textless"]             \* response.text is None
Response(t) == [kind |-> "response", text |-> t]
Failures == {ModelException("DeadlineExceeded"), NoResponse, TextlessResponse, Response(<<>>)}
ModelReplies == Failures \cup {Response(t) : t \in ReplyTexts}

(***************************************************************************)
(* GeminiService.__init__                                                  *)
(***************************************************************************)
\* api_key: whether settings.gemini_api_key is set; configures: whether
\* genai.configure and genai.GenerativeModel succeed
GeminiServiceInit(api_key, configures) ==
    IF api_key /\ configures
    THEN [enabled |-> TRUE, model |-> "client"]
    ELSE [enabled |-> FALSE, model |-> "none"]

(***************************************************************************)
(* GeminiService.analyze_comprehensive                                     *)
(***************************************************************************)
NoPrompt == [kind |-> "none"]
NoError == [type |-> "none"]
NoCall == [called |-> FALSE]
NoAttempt == [kind |-> "none", msg |-> ""]

Min(a, b) == IF a < b THEN a ELSE b

_build_analysis_prompt(txt, metadata) ==
    [kind |-> "prompt",
     title |-> PyGet(metadata, "title", S("untitled")).value,
     page_count |-> PyGet(metadata, "page_count", S("unknown")).value,
     content |-> SubSeq(txt, 1, Min(Len(txt), PromptMaxChars))]

\* the check without the strip
IsEmptyTextNoStrip(txt) == txt = <<>>

\* line 73: not text or not text.strip()
IsEmptyText(txt) == txt = <<>> \/ Strip(txt) = <<>>

\* the loop without its except clause's effect: every image is appended
DecodedImagesUnfiltered(list) ==
    [i \in 1..Len(list) |-> [kind |-> "image", page |-> list[i].page]]

\* lines 84-97: the prompt, then every image PIL can open, in order
RECURSIVE DecodedImages(_)
DecodedImages(list) ==
    IF list = <<>> THEN <<>>
    ELSE IF Head(list).decodable
         THEN <<[kind |-> "image", page |-> Head(list).page]>> \o DecodedImages(Tail(list))
         ELSE DecodedImages(Tail(list))

ContentParts(p, imgs) ==
    IF imgs.given /\ Len(imgs.list) > 0
    THEN <<p>> \o DecodedImages(imgs.list)
    ELSE <<p>>

\* line 102: not response or not response.text
IsEmptyResponse(reply) ==
    reply.kind \in {"no_response", "textless"}
        \/ (reply.kind = "response" /\ reply.text = <<>>)

\* line 130
HasNextAttempt(n, maxr) == n < maxr - 1

\* the backoff with the 1-based attempt number as exponent
WaitTimeOneBased(n) == 2 ^ (n + 1)

\* line 131
wait_time(n) == 2 ^ n

\* the error with the loop index in place of max_retries
ExhaustedErrorLoopIndex(maxr, msg) ==
    [type |-> "GeminiServiceError", attempts |-> maxr - 1, last |-> msg]

\* line 135
ExhaustedError(maxr, msg) ==
    [type |-> "GeminiServiceError", attempts |-> maxr, last |-> msg]

\* the store's failure, let through to the caller
SaveAnalysisUncaught(w) ==
    IF w = "all" THEN Ok(JNull) ELSE Raise("OSError", "Permission denied")

\* _save_analysis_to_file as its caller sees it: it returns None when the
\* files were written, and when a write failed (except Exception: warning)
_save_analysis_to_file(w) ==
    IF w = "all" THEN Ok(JNull) ELSE Ok(JNull)

\* lines 100-126 of one attempt: what the try block does with the reply.
\* failed is the kind of failure ("" when the attempt returns).
TryAttempt(reply) ==
    IF reply.kind = "exception"
    THEN [failed |-> "model_exception", msg |-> reply.msg, pin |-> <<>>, pout |-> NoCall]
    ELSE IF IsEmptyResponse(reply)
    THEN [failed |-> "empty_response", msg |-> "Empty response from Gemini API",
          pin |-> <<>>, pout |-> NoCall]
    ELSE LET parsed == _parse_response(reply.text)
         IN  IF parsed.raised
             THEN [failed |-> "parse_raised", msg |-> parsed.msg,
                   pin |-> reply.text, pout |-> parsed]
             ELSE LET logged == _log_coordinate_details(parsed.value)
                      saved == _save_analysis_to_file(writable)
                  IN  IF logged.raised
                      THEN [failed |-> "log_raised", msg |-> logged.msg,
                            pin |-> reply.text, pout |-> parsed]
                      ELSE IF saved.raised
                      THEN [failed |-> "save_raised", msg |-> saved.msg,
                            pin |-> reply.text, pout |-> parsed]
                      ELSE [failed |-> "", msg |-> "", pin |-> reply.text,
                            pout |-> parsed]

\* the latest-cache write that keeps a mock_data.json that is already there
SaveCacheKeepsFirst(file, analysis_result) ==
    IF writable = "all" /\ file = NoFile THEN JsonDump(analysis_result) ELSE file

\* lines 358-361: mock_data.json is overwritten when the write is reached
SaveCache(file, analysis_result) ==
    IF writable = "all" THEN JsonDump(analysis_result) ELSE file

\* lines 347-355: one more timestamped archive file
SaveArchive(n) == IF writable \in {"all", "archive_only"} THEN n + 1 ELSE n

NoHttp == [status |-> 0]

\* no analyze_comprehensive call in progress, and none to report on
NoAnalysis ==
    /\ pc' = "idle"
    /\ caller' = "none"
    /\ text' = <<>>
    /\ max_retries' = DefaultMaxRetries
    /\ prompt' = NoPrompt
    /\ images' = NoImages
    /\ attempt' = 0
    /\ calls' = 0
    /\ sent' = <<>>
    /\ delays' = <<>>
    /\ lastAttempt' = NoAttempt
    /\ outcome' = "none"
    /\ result' = JNull
    /\ error' = NoError
    /\ parseIn' = <<>>
    /\ parseOut' = NoCall
    /\ archive' = 0

\* an operation may start when no call is in progress
Quiescent == pc = "idle" \/ (pc = "done" /\ caller = "direct")

\* the call without the check of line 69
UsesMockSkipped == FALSE

\* line 69
UsesMock == ~enabled

\* the two checks in the other order
ShortCircuitEmptyFirst(txt) ==
    IF IsEmptyText(txt) THEN "empty" ELSE IF UsesMock THEN "mock" ELSE "none"

\* lines 69-75: which early return the call takes, "none" if it goes on
ShortCircuit(txt) ==
    IF UsesMock THEN "mock" ELSE IF IsEmptyText(txt) THEN "empty" ELSE "none"

\* lines 68-79: the call up to its first attempt
Call(who, txt, metadata, imgs, maxr) ==
    /\ caller' = who
    /\ text' = txt
    /\ max_retries' = maxr
    /\ images' = imgs
    /\ attempt' = 0
    /\ calls' = 0
    /\ sent' = <<>>
    /\ delays' = <<>>
    /\ lastAttempt' = NoAttempt
    /\ parseIn' = <<>>
    /\ parseOut' = NoCall
    /\ archive' = 0
    /\ canary' = 0
    /\ lastCheck' = "unset"
    /\ UNCHANGED <<enabled, model, cache, writable>>
    /\ IF ShortCircuit(txt) = "mock"
       THEN LET mock == _get_mock_analysis(cache, metadata)
            IN  /\ pc' = "done"
                /\ prompt' = NoPrompt
                /\ outcome' = IF mock.raised THEN "raised" ELSE "returned"
                /\ result' = IF mock.raised THEN JNull ELSE mock.value
                /\ error' = IF mock.raised
                            THEN [type |-> mock.exc, attempts |-> 0, last |-> mock.msg]
                            ELSE NoError
       ELSE IF ShortCircuit(txt) = "empty"
       THEN /\ pc' = "done"
            /\ prompt' = NoPrompt
            /\ outcome' = "returned"
            /\ result' = _get_empty_analysis
            /\ error' = NoError
       ELSE /\ prompt' = _build_analysis_prompt(txt, metadata)
            /\ error' = NoError
            /\ result' = JNull
            /\ IF maxr > 0
               THEN pc' = "attempt" /\ outcome' = "none"
               ELSE pc' = "done" /\ outcome' = "returned"   \* the loop body never runs

\* analyze_comprehensive called with any arguments
analyze_comprehensive ==
    /\ Quiescent
    /\ \E txt \in Texts, metadata \in Metadatas, imgs \in ImageArgs,
          maxr \in (0 - MinRetriesArg)..MaxRetriesArg :
          Call("direct", txt, metadata, imgs, maxr)
    /\ response' = NoHttp
    /\ UNCHANGED <<disk, issued, nextId, reqFile>>

\* one iteration of the loop of line 79
Attempt ==
    /\ pc = "attempt"
    /\ \E reply \in ModelReplies :
          LET try == TryAttempt(reply)
          IN  /\ calls' = calls + 1
              /\ sent' = ContentParts(prompt, images)
              /\ parseIn' = try.pin
              /\ parseOut' = try.pout
              /\ IF try.failed = ""
                 THEN /\ cache' = SaveCache(cache, try.pout.value)
                      /\ archive' = SaveArchive(archive)
                      /\ pc' = "done"
                      /\ outcome' = "returned"
                      /\ result' = try.pout.value
                      /\ lastAttempt' = [kind |-> "ok", msg |-> ""]
                      /\ UNCHANGED <<attempt, delays, error>>
                 ELSE /\ lastAttempt' = [kind |-> try.failed, msg |-> try.msg]
                      /\ UNCHANGED <<cache, archive, result>>
                      /\ IF HasNextAttempt(attempt, max_retries)
                         THEN /\ delays' = Append(delays, wait_time(attempt))
                              /\ attempt' = attempt + 1
                              /\ UNCHANGED <<pc, outcome, error>>
                         ELSE /\ pc' = "done"
                              /\ outcome' = "raised"
                              /\ error' = ExhaustedError(max_retries, try.msg)
                              /\ UNCHANGED <<attempt, delays>>
    /\ UNCHANGED <<enabled, model, caller, text, max_retries, prompt, images, canary,
                   lastCheck, writable, uploadVars>>

(***************************************************************************)
(* GeminiService.check_connection                                          *)
(***************************************************************************)
\* lines 499-505, given what the canary generate_content call does
CanaryResult(reply) ==
    CASE reply.kind = "exception" -> "False"
      [] reply.kind = "no_response" -> "None"     \* response and ...: the falsy response
      [] reply.kind = "textless" -> "False"
      [] OTHER -> "True"

\* line 496
NotConfigured == ~enabled \/ model = "none"

\* a connection check that turns the service off when the canary fails
CheckConnectionDisabling ==
    /\ Quiescent
    /\ IF NotConfigured
       THEN lastCheck' = "False" /\ canary' = 0 /\ UNCHANGED <<enabled, model>>
       ELSE \E reply \in Failures \cup {Response(<<Tag("OK")>>)} :
               /\ lastCheck' = CanaryResult(reply) /\ canary' = 1
               /\ enabled' = (CanaryResult(reply) = "True")
               /\ model' = IF CanaryResult(reply) = "True" THEN model ELSE "none"
    /\ NoAnalysis
    /\ response' = NoHttp
    /\ UNCHANGED <<cache, writable, disk, issued, nextId, reqFile>>

check_connection ==
    /\ Quiescent
    /\ IF NotConfigured
       THEN lastCheck' = "False" /\ canary' = 0
       ELSE \E reply \in Failures \cup {Response(<<Tag("OK")>>)} :
               lastCheck' = CanaryResult(reply) /\ canary' = 1
    /\ NoAnalysis
    /\ response' = NoHttp
    /\ UNCHANGED <<enabled, model, cache, writable, disk, issued, nextId, reqFile>>

(***************************************************************************)
(* The PDF routes (api/routes/pdf.py)                                      *)
(***************************************************************************)
MaxFiles == 2      \* uploads that reach line 54 in one run

Http(status_code, detail) == [status |-> status_code, detail |-> detail]

\* an upload that passes every check: valid is pdf_processor.validate_pdf,
\* extracts is extract_text and extract_metadata not raising, renders is
\* get_page_images not raising
GoodUpload ==
    [content_type |-> "application/pdf", filename |-> "a.pdf", size |-> "ok",
     valid |-> TRUE, extracts |-> TRUE, renders |-> TRUE]

\* the uploads a client sends: the good one, one failing each check, and one
\* whose filename is just ".pdf"
Uploads ==
    {GoodUpload,
     [GoodUpload EXCEPT !.content_type = "text/plain"],
     [GoodUpload EXCEPT !.filename = "a.txt"],
     [GoodUpload EXCEPT !.filename = ".pdf"],
     [GoodUpload EXCEPT !.size = "too_large"],
     [GoodUpload EXCEPT !.size = "empty"],
     [GoodUpload EXCEPT !.valid = FALSE],
     [GoodUpload EXCEPT !.extracts = FALSE],
     [GoodUpload EXCEPT !.renders = FALSE]}

\* line 47: file.filename.endswith(".pdf"), for the filenames of Uploads
EndsWithPdf(filename) == filename \in {"a.pdf", ".pdf"}

\* line 55: Path(file.filename).suffix; a name that is only a dot and letters
\* is a hidden file without suffix
Suffix(filename) ==
    CASE filename = "a.pdf" -> ".pdf"
      [] filename = "a.txt" -> ".txt"
      [] OTHER -> ""

\* lines 56-57: the file "{file_id}{file_extension}" of the upload directory
SavedName(file_id, file_extension) == [id |-> file_id, suffix |-> file_extension]

\* lines 39-75: the answer to an upload that is never saved, NoHttp otherwise
Rejection(upload) ==
    IF upload.content_type # "application/pdf" THEN Http(400, "Invalid file type")
    ELSE IF ~EndsWithPdf(upload.filename) THEN Http(400, "Invalid filename")
    ELSE IF upload.size = "too_large" THEN Http(413, "File too large")
    ELSE IF upload.size = "empty" THEN Http(400, "File is empty")
    ELSE NoHttp

\* line 54 is reached
TakesId(upload) ==
    upload.content_type = "application/pdf" /\ EndsWithPdf(upload.filename)

\* lines 83-101: the answer to a saved upload that is removed again
Unprocessable(upload) ==
    IF ~upload.valid THEN Http(400, "Invalid or corrupted PDF file")
    ELSE IF ~upload.extracts THEN Http(400, "PDF processing error")
    ELSE NoHttp

\* analyze_pdf, lines 39-113: up to the call of analyze_comprehensive
analyze_pdf ==
    /\ pc = "idle"
    /\ \E upload \in Uploads :
          /\ TakesId(upload) => nextId <= MaxFiles
          /\ nextId' = IF TakesId(upload) THEN nextId + 1 ELSE nextId
          /\ IF Rejection(upload) # NoHttp
             THEN /\ response' = Rejection(upload)
                  /\ NoAnalysis
                  /\ canary' = 0 /\ lastCheck' = "unset"
                  /\ UNCHANGED <<enabled, model, cache, writable, disk, reqFile>>
             ELSE IF Unprocessable(upload) # NoHttp
             THEN /\ response' = Unprocessable(upload)
                  /\ disk' = (disk \cup {SavedName(nextId, Suffix(upload.filename))})
                                \ {SavedName(nextId, Suffix(upload.filename))}  \* saved, then os.remove
                  /\ NoAnalysis
                  /\ canary' = 0 /\ lastCheck' = "unset"
                  /\ UNCHANGED <<enabled, model, cache, writable, reqFile>>
             ELSE /\ disk' = disk \cup {SavedName(nextId, Suffix(upload.filename))}
                  /\ reqFile' = nextId
                  /\ response' = NoHttp
                  /\ \E txt \in Texts, metadata \in Metadatas, imgs \in ImageArgs :
                        Call("route", txt, metadata,
                             IF upload.renders THEN imgs ELSE NoImages,
                             DefaultMaxRetries)
    /\ UNCHANGED issued

\* lines 114-140: what the route does with the outcome of the call
RouteCleanup(files, file_id) ==
    IF outcome = "raised" /\ error.type = "GeminiServiceError"
    THEN files                               \* except HTTPException: raise
    ELSE IF outcome = "raised" \/ result.kind # "object"
    THEN {f \in files : f.id # file_id}      \* except Exception: os.remove(file_path)
    ELSE files

RouteResponse(file_id) ==
    IF outcome = "raised" /\ error.type = "GeminiServiceError"
    THEN Http(500, "AI analysis error")
    ELSE IF outcome = "raised" \/ result.kind # "object"
    THEN Http(500, "Error processing PDF")
    ELSE [status |-> 200, file_id |-> file_id, analysis |-> result]

analyze_pdf_respond ==
    /\ pc = "done" /\ caller = "route"
    /\ response' = RouteResponse(reqFile)
    /\ disk' = RouteCleanup(disk, reqFile)
    /\ issued' = IF RouteResponse(reqFile).status = 200 THEN issued \cup {reqFile} ELSE issued
    /\ reqFile' = 0
    /\ NoAnalysis
    /\ UNCHANGED <<enabled, model, canary, lastCheck, cache, writable, nextId>>

Star == 0          \* the file_id "*", a pattern that matches every name

\* the file ids a client asks for
FileIds == 1..MaxFiles \cup {Star}

\* upload_dir.glob(f"{file_id}.pdf")
Glob(files, file_id) ==
    {f \in files : f.suffix = ".pdf" /\ (file_id = Star \/ f.id = file_id)}

\* get_pdf: the first file the glob finds is served
get_pdf ==
    /\ pc = "idle"
    /\ \E file_id \in FileIds :
          LET pdf_files == Glob(disk, file_id)
          IN  IF pdf_files = {}
              THEN response' = Http(404, "PDF file not found")
              ELSE \E file_path \in pdf_files :
                      response' = [status |-> 200, file_id |-> file_id,
                                   served |-> file_path.id]
    /\ NoAnalysis
    /\ canary' = 0 /\ lastCheck' = "unset"
    /\ UNCHANGED <<enabled, model, cache, writable, disk, issued, nextId, reqFile>>

\* delete_pdf: os.remove of the first file the glob finds
delete_pdf ==
    /\ pc = "idle"
    /\ \E file_id \in FileIds :
          LET pdf_files == Glob(disk, file_id)
          IN  IF pdf_files = {}
              THEN /\ disk' = disk
                   /\ response' = Http(404, "PDF file not found")
              ELSE \E file_path \in pdf_files :
                      /\ disk' = disk \ {file_path}
                      /\ response' = [status |-> 200, file_id |-> file_id,
                                      deleted |-> file_path.id]
    /\ NoAnalysis
    /\ canary' = 0 /\ lastCheck' = "unset"
    /\ UNCHANGED <<enabled, model, cache, writable, issued, nextId, reqFile>>

(***************************************************************************)
(* The process                                                             *)
(***************************************************************************)
\* ./mock_data.json at startup: absent, hand-edited into invalid JSON, or a
\* result an earlier run archived
InitialCaches ==
    {NoFile, <<Junk>>, JsonDump(FullObj), JsonDump(Deviant("summary", JNull))}

Idle ==
    /\ pc = "idle"
    /\ caller = "none"
    /\ text = <<>>
    /\ max_retries = DefaultMaxRetries
    /\ prompt = NoPrompt
    /\ images = NoImages
    /\ attempt = 0
    /\ calls = 0
    /\ sent = <<>>
    /\ delays = <<>>
    /\ lastAttempt = NoAttempt
    /\ outcome = "none"
    /\ result = JNull
    /\ error = NoError
    /\ parseOut = NoCall
    /\ archive = 0
    /\ canary = 0
    /\ lastCheck = "unset"
    /\ disk = {}
    /\ issued = {}
    /\ nextId = 1
    /\ reqFile = 0
    /\ response = NoHttp

Init ==
    /\ \E api_key \in BOOLEAN, configures \in BOOLEAN :
          /\ enabled = GeminiServiceInit(api_key, configures).enabled
          /\ model = GeminiServiceInit(api_key, configures).model
    /\ cache \in InitialCaches
    /\ writable \in {"all", "archive_only", "none"}
    /\ parseIn = <<>>
    /\ Idle

\* the service, called directly
Next ==
    \/ analyze_comprehensive
    \/ Attempt
    \/ check_connection

Spec == Init /\ [][Next]_vars

\* the service behind the PDF routes
NextHttp ==
    \/ analyze_pdf
    \/ Attempt
    \/ analyze_pdf_respond
    \/ get_pdf
    \/ delete_pdf

SpecHttp == Init /\ [][NextHttp]_vars

(***************************************************************************)
(* _parse_response on its own, applied to every reply text                 *)
(***************************************************************************)
InitParse ==
    /\ enabled = TRUE
    /\ model = "client"
    /\ cache = NoFile
    /\ writable = "all"
    /\ parseIn \in RawTexts
    /\ Idle

ParseResponse ==
    /\ pc = "idle"
    /\ parseOut = NoCall
    /\ parseOut' = _parse_response(parseIn)
    /\ UNCHANGED <<enabled, model, pc, caller, text, max_retries, prompt, images, attempt,
                   calls, sent, delays, lastAttempt, outcome, result, error, parseIn, canary,
                   lastCheck, cache, archive, writable, uploadVars>>

SpecParse == InitParse /\ [][ParseResponse]_vars

(***************************************************************************)
(* The data model (models/schemas.py)                                      *)
(***************************************************************************)
IsStr(v) == v.kind = "string"
IsStrDict(v) == IsDict(v) /\ \A k \in DOMAIN v.fields : IsStr(v.fields[k])
Has(v, k) == k \in DOMAIN v.fields

\* Coordinate: x and y are Dict[str, str], each with a default
IsCoordinate(v) ==
    /\ IsDict(v)
    /\ Has(v, "x") => IsStrDict(v.fields["x"])
    /\ Has(v, "y") => IsStrDict(v.fields["y"])

IsExtractedElement(v) ==
    /\ IsDict(v)
    /\ Has(v, "value") /\ IsStr(v.fields["value"])
    /\ Has(v, "coordinate") /\ IsCoordinate(v.fields["coordinate"])

IsClassification(v) ==
    /\ IsDict(v)
    /\ \A k \in {"document_type", "industry", "confidence"} :
          Has(v, k) /\ IsStr(v.fields[k])

IsElementList(v) ==
    v.kind = "array" /\ \A i \in 1..Len(v.items) : IsExtractedElement(v.items[i])
IsStrList(v) == v.kind = "array" /\ \A i \in 1..Len(v.items) : IsStr(v.items[i])

\* AnalysisResult: summary and classification required, the lists default
IsAnalysisResult(v) ==
    /\ IsDict(v)
    /\ Has(v, "summary") /\ IsStr(v.fields["summary"])
    /\ Has(v, "classification") /\ IsClassification(v.fields["classification"])
    /\ \A k \in {"dimension", "annotation", "title_block", "others"} :
          Has(v, k) => IsElementList(v.fields[k])
    /\ Has(v, "key_insights") => IsStrList(v.fields["key_insights"])

(***************************************************************************)
(* Claims                                                                  *)
(***************************************************************************)
Parsed == parseOut # NoCall
Done == pc = "done"
IsArray(v) == v.kind = "array"
EmptyArrays(v) ==
    \A k \in {"dimension", "annotation", "title_block", "others"} :
        v.fields[k] = JArr(<<>>)
Confidence(v) == v.fields["classification"].fields["confidence"]

\* C1: _parse_response never raises, whatever the raw text, so an attempt
\* whose reply was non-empty (the parser was called) ends the call with a
\* returned result instead of leading to another attempt.
C1_ParseNeverRaises ==
    Parsed => /\ ~parseOut.raised
              /\ Done
              /\ outcome = "returned"

\* C2: every result _parse_response returns has the seven required keys, with
\* summary a string, classification an object, dimension, annotation,
\* title_block and others arrays, and key_insights an array of strings.
C2_ResultHasTypedKeys ==
    (Parsed /\ ~parseOut.raised) =>
        LET v == parseOut.value
        IN  /\ IsDict(v)
            /\ KeySet \subseteq DOMAIN v.fields
            /\ IsStr(v.fields["summary"])
            /\ IsDict(v.fields["classification"])
            /\ \A k \in {"dimension", "annotation", "title_block", "others"} :
                  IsArray(v.fields[k])
            /\ IsStrList(v.fields["key_insights"])

\* C3: in configured mode with non-empty text, another attempt is started
\* exactly when the attempt before ended in an exception of the model call or
\* an empty response and attempts are left; the model is called at most
\* max_retries times and never after an attempt obtained non-empty text.
C3_RetryOnlyOnModelFailure ==
    /\ (pc = "attempt" /\ attempt > 0) =>
          lastAttempt.kind \in {"model_exception", "empty_response"}
    /\ (Done /\ lastAttempt.kind \in {"model_exception", "empty_response"}) =>
          calls = max_retries
    /\ (caller # "none" /\ max_retries >= 0) => calls <= max_retries
    /\ (pc = "attempt") => ~Parsed

\* C4: the delay after failed attempt n is 2^(n-1): the first is 1 and each
\* next one doubles; there is one delay per retry and none after the last
\* attempt, so a call that made k model calls slept k-1 times.
C4_ExponentialBackoff ==
    /\ Len(delays) > 0 => delays[1] = 1
    /\ \A i \in 1..(Len(delays) - 1) : delays[i + 1] = 2 * delays[i]
    /\ pc = "attempt" => Len(delays) = calls
    /\ (Done /\ calls > 0) => Len(delays) = calls - 1
    /\ (Done /\ calls = 0) => delays = <<>>

\* C4 witness: two failures, then a reply: the parsed result after delays 1, 2.
C4_Witness ==
    /\ Done /\ outcome = "returned"
    /\ calls = 3 /\ delays = <<1, 2>>
    /\ Parsed /\ result = parseOut.value

\* C5: when every one of the max_retries attempts failed, the call raises one
\* GeminiServiceError that carries max_retries and the message of the error of
\* the last attempt.
C5_ExhaustedCarriesLast ==
    /\ (Done /\ calls > 0 /\ calls = max_retries /\ lastAttempt.kind # "ok") =>
          /\ outcome = "raised"
          /\ error = [type |-> "GeminiServiceError", attempts |-> max_retries,
                      last |-> lastAttempt.msg]
    /\ (Done /\ outcome = "raised") =>
          /\ calls = max_retries
          /\ lastAttempt.kind # "ok"

\* C5 witness: three attempts, the last one an empty response after another
\* kind of failure could have come first.
C5_Witness ==
    /\ Done /\ outcome = "raised" /\ max_retries = 3 /\ calls = 3
    /\ lastAttempt.kind = "empty_response"
    /\ error.last = "Empty response from Gemini API"

\* C6: for every input, every max_retries included, the call ends by
\* returning a schema-valid result or by raising GeminiServiceError; it never
\* returns None.
C6_ResultOrError ==
    Done => \/ outcome = "returned" /\ result # JNull /\ IsAnalysisResult(result)
            \/ outcome = "raised" /\ error.type = "GeminiServiceError"

\* the answers of analyze_pdf to a request whose upload had been saved
AfterSaveErrors ==
    {"Invalid or corrupted PDF file", "PDF processing error", "AI analysis error",
     "Error processing PDF"}

\* C7: when analyze_pdf answers with an error after the upload was written
\* to disk, the saved file (the one with the last id taken) is gone.
C7_ErrorRemovesUpload ==
    (response.status \in {400, 500} /\ response.detail \in AfterSaveErrors) =>
        \A f \in disk : f.id # nextId - 1

\* C8: with no credential configured, analyze_comprehensive returns the mock
\* result (the archived one if mock_data.json holds one, the fallback if not),
\* check_connection returns False, and generate_content is never called.
C8_NotConfiguredNoModelCall ==
    ~enabled =>
        /\ calls = 0 /\ canary = 0 /\ sent = <<>> /\ prompt = NoPrompt
        /\ lastCheck \in {"unset", "False"}
        /\ Done => /\ outcome = "returned"
                   /\ IF Len(cache) = 1 /\ cache[1].t = "doc"
                      THEN result = cache[1].v
                      ELSE result \in {FallbackMock(m) : m \in Metadatas}

\* C8 witness: a call answered from the mock data with the service disabled
C8_Witness == ~enabled /\ Done /\ outcome = "returned" /\ result = FullObj

\* C9: in configured mode, for empty or whitespace-only text the call returns
\* the canonical empty-document result (confidence low, the four element
\* arrays empty) and builds no prompt, calls no model, sleeps never, starts
\* no attempt.
C9_EmptyTextShortCircuit ==
    (enabled /\ caller # "none" /\ \A i \in 1..Len(text) : text[i] = Ws) =>
        /\ Done /\ outcome = "returned"
        /\ result = _get_empty_analysis
        /\ Confidence(result) = S("low") /\ EmptyArrays(result)
        /\ prompt = NoPrompt /\ calls = 0 /\ sent = <<>> /\ delays = <<>>
        /\ attempt = 0 /\ lastAttempt = NoAttempt /\ ~Parsed

\* C9 witness: a whitespace-only text given to the configured service
C9_Witness == enabled /\ caller # "none" /\ text = <<Ws>> /\ Done

\* json.loads accepts the text left after the fences are stripped
Decodable(raw) ==
    LET stripped == StripFences(raw)
    IN  Len(stripped) = 1 /\ stripped[1].t = "doc"

\* C10: when the text left after fence stripping is not decodable JSON,
\* _parse_response returns the degraded result: a summary that says parsing
\* failed, confidence low, the four element arrays empty, one diagnostic
\* string in key_insights.
C10_UndecodableIsDegraded ==
    (Parsed /\ ~Decodable(parseIn)) =>
        /\ ~parseOut.raised
        /\ LET v == parseOut.value
           IN  /\ IsAnalysisResult(v)
               /\ v.fields["summary"] =
                      S("Analysis completed but response parsing failed. The document was processed successfully.")
               /\ Confidence(v) = S("low")
               /\ EmptyArrays(v)
               /\ IsStrList(v.fields["key_insights"])
               /\ Len(v.fields["key_insights"].items) = 1

\* C10 witness: the truncated object inside a json fence
C10_Witness ==
    /\ Parsed
    /\ parseIn = <<Fence, Tag("json"), Ws, Junk, Ws, Fence>>
    /\ parseOut = Ok(DegradedResult)

\* the decoded objects among the reply documents
DecodedObjects == {v \in DecodedValues : IsDict(v)}

\* C11: a leading and a trailing fence marker are stripped, whatever the
\* language tag of the opening fence (none, json, or any other), so a valid
\* JSON object wrapped in a fence parses to what the bare object parses to.
C11_FencedEqualsBare ==
    Parsed =>
        \A l \in Leads, t \in Trails, v \in DecodedObjects :
            parseIn = l \o <<Doc(v)>> \o t => parseOut = _parse_response(<<Doc(v)>>)

\* the defaults the specification names: empty string, empty object, empty array
EmptyDefault(key) ==
    CASE key = "summary" -> JStr(<<>>)
      [] key = "classification" -> EmptyObj
      [] OTHER -> JArr(<<>>)

\* C12: when the decoded object lacks required keys, each missing key is added
\* with the empty value of its type (empty string, empty object, empty array)
\* and every key that was present keeps its decoded value.
C12_MissingKeysGetEmptyDefaults ==
    (Parsed /\ Decodable(parseIn) /\ IsDict(StripFences(parseIn)[1].v)) =>
        LET decoded == StripFences(parseIn)[1].v
        IN  /\ ~parseOut.raised
            /\ DOMAIN parseOut.value.fields = DOMAIN decoded.fields \cup KeySet
            /\ \A k \in DOMAIN decoded.fields :
                  parseOut.value.fields[k] = decoded.fields[k]
            /\ \A k \in KeySet \ DOMAIN decoded.fields :
                  parseOut.value.fields[k] = EmptyDefault(k)

\* the built-in fallback results
Fallbacks == {FallbackMock(m) : m \in Metadatas}
ElementKeys == {"dimension", "annotation", "title_block", "others"}

\* float(s) for the coordinate strings of the replies, in tenths
Tenths(s) ==
    CASE s = S("0.1") -> 1
      [] s = S("0.2") -> 2
      [] s = S("0.3") -> 3
      [] s = S("0.4") -> 4
      [] OTHER -> 0

CoordinateOrdered(c) ==
    /\ Tenths(c.fields["y"].fields["upper_y"]) <= Tenths(c.fields["y"].fields["lower_y"])
    /\ Tenths(c.fields["x"].fields["left_x"]) <= Tenths(c.fields["x"].fields["right_x"])

\* C13: the built-in fallback that _get_mock_analysis returns when there is no
\* cache has at least one element in each of dimension, annotation,
\* title_block and others, each with upper_y <= lower_y and left_x <= right_x.
C13_FallbackHasExamples ==
    (~enabled /\ Done /\ outcome = "returned" /\ result \in Fallbacks) =>
        \A k \in ElementKeys :
            /\ Len(result.fields[k].items) >= 1
            /\ \A i \in 1..Len(result.fields[k].items) :
                  CoordinateOrdered(result.fields[k].items[i].fields["coordinate"])

\* mock_data.json holds a result
HasCacheEntry == Len(cache) = 1 /\ cache[1].t = "doc"

\* C14: _get_mock_analysis returns the archived latest result whenever the
\* cache holds one, the built-in fallback only when it holds none, and what it
\* returns is a schema-valid AnalysisResult.
C14_MockPrefersCache ==
    (~enabled /\ Done) =>
        /\ outcome = "returned"
        /\ HasCacheEntry => result = cache[1].v
        /\ ~HasCacheEntry => result \in Fallbacks
        /\ IsAnalysisResult(result)

\* C15: a failing archive store never fails the request: an attempt whose
\* reply was parsed and logged returns that parsed result, whether or not the
\* files could be written; a write failure is no attempt failure, so it
\* causes neither an error, another attempt nor a delay.
C15_StoreFailureHarmless ==
    /\ lastAttempt.kind # "save_raised"
    /\ (Parsed /\ ~parseOut.raised /\ ~_log_coordinate_details(parseOut.value).raised) =>
          /\ Done /\ outcome = "returned" /\ error = NoError
          /\ result = parseOut.value
          /\ lastAttempt.kind = "ok"
          /\ Len(delays) = calls - 1

\* C15 witness: nothing can be written, and the first reply is returned
C15_Witness ==
    /\ writable = "none" /\ cache = NoFile /\ archive = 0
    /\ Done /\ outcome = "returned" /\ result = FullObj
    /\ calls = 1 /\ delays = <<>>

\* the pages of the images argument that decode
DecodablePages ==
    IF images.given
    THEN {images.list[i].page : i \in {j \in 1..Len(images.list) : images.list[j].decodable}}
    ELSE {}

\* C16: the content sent on an attempt is the prompt, then the images that
\* decoded, in page order; an image that does not decode is left out and is
\* no attempt failure; without a decodable image the content is the prompt.
C16_PromptThenDecodedImages ==
    calls > 0 =>
        LET imgs == Tail(sent)
        IN  /\ sent[1] = prompt /\ prompt # NoPrompt
            /\ \A i \in 1..Len(imgs) : imgs[i].kind = "image"
            /\ {imgs[i].page : i \in 1..Len(imgs)} = DecodablePages
            /\ \A i, j \in 1..Len(imgs) : i < j => imgs[i].page < imgs[j].page
            /\ DecodablePages = {} => sent = <<prompt>>
            /\ lastAttempt.kind \in {"ok", "model_exception", "empty_response",
                                     "parse_raised", "log_raised"}

\* C16 witness: three pages, the second undecodable: pages 1 and 3 are sent
\* and the first attempt returns
C16_Witness ==
    /\ images = ImageList(<<Png(1, TRUE), Png(2, FALSE), Png(3, TRUE)>>)
    /\ Len(sent) = 3 /\ sent[2].page = 1 /\ sent[3].page = 3
    /\ Done /\ outcome = "returned" /\ calls = 1 /\ delays = <<>>

\* C17: check_connection returns the boolean False when the service is not
\* configured, when the canary call raises, and when it yields no response or
\* no text; it returns True otherwise; it returns nothing else.
C17_CheckReturnsBool ==
    /\ lastCheck \in {"unset", "False", "True"}
    /\ NotConfigured => lastCheck \in {"unset", "False"}
    /\ lastCheck = "True" => canary = 1

\* C18: enabled and model are fixed by the constructor: no call of
\* analyze_comprehensive or check_connection, whatever its outcome, changes
\* them.
C18_ModeFixed == [][enabled' = enabled /\ model' = model]_vars

\* C18 witness: the retries of a call are exhausted and the service is still
\* configured
C18_Witness ==
    /\ enabled /\ model = "client"
    /\ Done /\ outcome = "raised" /\ error.type = "GeminiServiceError"
    /\ max_retries = 2 /\ calls = 2

\* C19: with a writable store, mock_data.json holds the result of the most
\* recent call that returned from an attempt (the degraded result of an
\* unparsable reply included): such a call writes its result, and no other
\* step changes the file; a call that ends otherwise writes no archive file.
C19_CacheIsLastSuccess ==
    /\ []((writable = "all" /\ Done /\ lastAttempt.kind = "ok") =>
              (cache = JsonDump(result) /\ archive = 1))
    /\ []((Done /\ lastAttempt.kind # "ok") => archive = 0)
    /\ [][cache' # cache =>
              (writable = "all" /\ pc' = "done" /\ lastAttempt'.kind = "ok")]_vars

\* C19 witness: the degraded result of an unparsable reply replaced an
\* earlier cache entry
C19_Witness ==
    /\ writable = "all" /\ Done /\ lastAttempt.kind = "ok"
    /\ parseIn = <<Junk>> /\ result = DegradedResult
    /\ cache = JsonDump(DegradedResult) /\ archive = 1

\* C20: the check for a missing credential comes first: a service that is not
\* configured returns the mock result for every text, empty and
\* whitespace-only text included, and the empty-document result is returned
\* only by a configured service.
C20_MockBeforeEmpty ==
    /\ (~enabled /\ Done /\ IsEmptyText(text)) =>
          /\ outcome = "returned"
          /\ result # _get_empty_analysis
          /\ HasCacheEntry => result = cache[1].v
          /\ ~HasCacheEntry => result \in Fallbacks
    /\ (Done /\ outcome = "returned" /\ result = _get_empty_analysis) => enabled

\* C20 witness: whitespace-only text given to a service without credential
C20_Witness ==
    /\ ~enabled /\ caller = "direct" /\ text = <<Ws>>
    /\ Done /\ outcome = "returned" /\ result \in Fallbacks

\* the upload with this id can be fetched as "{id}.pdf"
Retrievable(files, id) == Glob(files, id) # {}

\* the last response is the 200 of get_pdf or of delete_pdf
FileAnswer ==
    response.status = 200
        /\ ("served" \in DOMAIN response \/ "deleted" \in DOMAIN response)

\* C21: a file id returned by a successful analyze_pdf is retrievable by
\* get_pdf from then on until delete_pdf is called for it; once deleted it
\* stays gone, so get_pdf and a second delete_pdf answer 404; and get_pdf and
\* delete_pdf answer 200 only for ids a successful analyze_pdf returned.
C21_UploadLifecycle ==
    /\ [](FileAnswer => response.file_id \in issued)
    /\ [][/\ \A id \in issued' \ issued : Retrievable(disk', id)
          /\ \A id \in issued :
                /\ (Retrievable(disk, id) /\ ~Retrievable(disk', id)) =>
                       ("deleted" \in DOMAIN response' /\ response'.file_id = id)
                /\ ~Retrievable(disk, id) => ~Retrievable(disk', id)]_vars

====
